---- MODULE Spec2Model ----
(***************************************************************************)
(* RegloCPF: the controller of a Reglo-CPF pump over an Arduino Stream.    *)
(*                                                                         *)
(* The model follows src/RegloCPF.cpp call by call: every _stream->read()  *)
(* is one step of the running operation, so that bytes of the device may   *)
(* arrive between two reads.  The channel is the Stream's receive buffer   *)
(* (rx) and the bytes the device has sent that have not arrived yet        *)
(* (wire).  Bytes are integers 0..255; Stream::read() returns -1 when the  *)
(* receive buffer is empty.  `char` is the signed 8-bit char of the AVR    *)
(* toolchain the library is written for (its loops compare a char with     *)
(* -1), so storing the int 255 in a char gives -1.                         *)
(***************************************************************************)
EXTENDS Integers, Sequences, FiniteSets, TLC

VARIABLES
    address,    \* RegloCPF::_address
    pc,         \* position of the running operation
    op,         \* the public operation that is running or has returned
    mantisse,   \* the caller's *mantisse
    exponent,   \* the caller's *exponent
    req,        \* history: <<*mantisse, *exponent>> as passed in
    result,     \* the code returned by the operation ("none" while running)
    time,       \* confirm(): the retry counter
    input,      \* read_float_from_pump(): the chars collected so far
    rx,         \* bytes buffered in the Stream, oldest first
    wire,       \* bytes sent by the device that have not arrived yet
    tx,         \* history: the commands printed to the Stream in this call
    drained,    \* history: how many bytes clear_buffer() consumed in this call
    got,        \* history: the bytes read after the command was printed
    staleBuf,   \* history: bytes buffered when the call began, not yet consumed
    misread     \* history: a response read returned a byte counted by staleBuf

vars == <<address, pc, op, mantisse, exponent, req, result, time, input,
          rx, wire, tx, drained, got, staleBuf, misread>>

----------------------------------------------------------------------------
(* Characters.                                                             *)

Ord(c) ==
    CASE c = "*"  -> 42  [] c = "#"  -> 35  [] c = "?"  -> 63
      [] c = "+"  -> 43  [] c = "-"  -> 45  [] c = "E"  -> 69
      [] c = "X"  -> 88  [] c = "0"  -> 48  [] c = "\r" -> 13
      [] c = "\n" -> 10  [] c = " "  -> 32  [] c = "\t" -> 9
      [] c = "A"  -> 65  [] c = "B"  -> 66  [] c = "H"  -> 72
      [] c = "I"  -> 73  [] c = "J"  -> 74  [] c = "K"  -> 75
      [] c = "f"  -> 102 [] c = "\\0" -> 0  [] c = "\\xFF" -> 255

Digit(d) == Ord("0") + d

\* Stream::read() when nothing is buffered.
NoByte == 0 - 1

\* int -> char, as in `char response = _stream->read();`
ToChar(b) == IF b >= 128 THEN b - 256 ELSE b

\* Return codes (the enum of RegloCPF.h).
REGLO_OK == "REGLO_OK"
REGLO_ERROR == "REGLO_ERROR"
REGLO_TIMEOUT == "REGLO_TIMEOUT"
REGLO_OUT_OF_RANGE == "REGLO_OUT_OF_RANGE"
REGLO_INTERNAL_ERROR == "REGLO_INTERNAL_ERROR"
REGLO_BAD_RESPONSE == "REGLO_BAD_RESPONSE"

RESPONSE_OK == Ord("*")
RESPONSE_ERROR == Ord("#")
RESPONSE_TIMEOUT == NoByte

BUFFER_SIZE == 16

\* The frame width of read_float_from_pump (char input[9]).
FRAME_WIDTH == 9

----------------------------------------------------------------------------
(* Bounds of the model.                                                    *)

\* confirm() retries while time < 100000; the model runs the same loop with
\* this limit.
MaxTime == 2

\* A call begins only when at most this many bytes of earlier exchanges are
\* still buffered or in flight.
MaxStale == 1

\* The device's bytes arrive while fewer than this many are buffered unread;
\* a read sees the same bytes, and the same gaps between them, as with a
\* deeper buffer.
MaxRx == 2

\* clear_buffer() is called with up to this many bytes buffered.
MaxBuffered == 4

----------------------------------------------------------------------------
(* The Stream.                                                             *)

\* Stream::read(): the oldest buffered byte, or -1.
\* (StreamReadAsChar: the result narrowed to a char before it is compared.)
StreamReadAsChar == IF rx = <<>> THEN NoByte ELSE ToChar(Head(rx))
StreamRead == IF rx = <<>> THEN NoByte ELSE Head(rx)
\* (RxAfterPeek: a read that leaves the byte in the buffer, as peek() does.)
RxAfterPeek == rx
RxAfterRead == IF rx = <<>> THEN rx ELSE Tail(rx)

\* History kept with every read of the running call.
StaleAfterRead == IF rx # <<>> /\ staleBuf > 0 THEN staleBuf - 1 ELSE staleBuf
Consumed(h) == IF rx = <<>> THEN h ELSE Append(h, Head(rx))
Taken == IF rx = <<>> THEN 0 ELSE 1

----------------------------------------------------------------------------
(* request(): vsnprintf of the command templates.                          *)

SimpleOps == {"start", "stop", "disable_control_panel", "enable_control_panel",
              "clockwise", "counterClockwise"}
FlowOps == {"get_flow_rate", "set_flow_rate"}

RECURSIVE DecDigits(_)
DecDigits(n) ==
    IF n < 10 THEN <<Digit(n)>> ELSE Append(DecDigits(n \div 10), Digit(n % 10))

RECURSIVE ZeroPad(_, _)
ZeroPad(s, w) == IF Len(s) >= w THEN s ELSE ZeroPad(<<Digit(0)>> \o s, w)

\* printf's %.<prec>d ; %d is FormatD(n, 1).
\* (FormatDLong: every conversion with five more digits of precision.)
FormatDLong(n, prec) ==
    IF n < 0 THEN <<Ord("-")>> \o ZeroPad(DecDigits(0 - n), prec + 5)
             ELSE ZeroPad(DecDigits(n), prec + 5)
FormatD(n, prec) ==
    IF n < 0 THEN <<Ord("-")>> \o ZeroPad(DecDigits(0 - n), prec)
             ELSE ZeroPad(DecDigits(n), prec)

Abs(n) == IF n < 0 THEN 0 - n ELSE n

CommandLetter(o) ==
    CASE o = "start" -> Ord("H")
      [] o = "stop" -> Ord("I")
      [] o = "disable_control_panel" -> Ord("B")
      [] o = "enable_control_panel" -> Ord("A")
      [] o = "clockwise" -> Ord("J")
      [] o = "counterClockwise" -> Ord("K")
      [] o \in FlowOps -> Ord("f")

\* char exponent_prefix = (*exponent >= 0) ? '+' : '-';
\* (ExponentPrefixStrict: the test written *exponent > 0.)
ExponentPrefixStrict(e) == IF e > 0 THEN Ord("+") ELSE Ord("-")
ExponentPrefix(e) == IF e >= 0 THEN Ord("+") ELSE Ord("-")

\* The text vsnprintf would produce for the operation's template.
Render(o, a, m, e) ==
    IF o = "set_flow_rate"
    THEN FormatD(a, 1) \o <<Ord("f")>> \o FormatD(m, 4) \o <<ExponentPrefix(e)>>
         \o FormatD(Abs(e), 1) \o <<Ord("\r")>>
    ELSE FormatD(a, 1) \o <<CommandLetter(o), Ord("\r")>>

\* if (result == -1 || result >= BUFFER_SIZE) return REGLO_INTERNAL_ERROR;
\* (RequestFitsOffByOne: the test written result > BUFFER_SIZE.)
RequestFitsOffByOne(text) == Len(text) <= BUFFER_SIZE
RequestFits(text) == Len(text) < BUFFER_SIZE

\* set_flow_rate's range checks.
InRange(m, e) == ~(e > 9 \/ e < 0 - 9) /\ ~(m > 9999 \/ m < 0)

----------------------------------------------------------------------------
(* read_float_from_pump(): sscanf(input, "%dE%d\r\n", mantisse, exponent). *)

IsSpace(c) == c \in {Ord(" "), Ord("\t"), Ord("\n"), 11, 12, Ord("\r")}
IsDigit(c) == c >= Digit(0) /\ c <= Digit(9)

RECURSIVE SkipSpace(_, _)
SkipSpace(s, i) == IF i <= Len(s) /\ IsSpace(s[i]) THEN SkipSpace(s, i + 1) ELSE i

RECURSIVE ScanDigits(_, _, _)
ScanDigits(s, i, acc) ==
    IF i <= Len(s) /\ IsDigit(s[i])
    THEN ScanDigits(s, i + 1, acc * 10 + (s[i] - Digit(0)))
    ELSE <<acc, i>>

\* One %d conversion starting at s[i].
\* (ScanIntUnsigned: a conversion that drops the sign, as %u would.)
ScanIntUnsigned(s, i) ==
    LET j == SkipSpace(s, i)
        signed == j <= Len(s) /\ s[j] \in {Ord("+"), Ord("-")}
        k == IF signed THEN j + 1 ELSE j
        d == ScanDigits(s, k, 0)
    IN  IF k <= Len(s) /\ IsDigit(s[k])
        THEN [ok |-> TRUE, val |-> d[1], next |-> d[2]]
        ELSE [ok |-> FALSE, val |-> 0, next |-> k]
ScanInt(s, i) ==
    LET j == SkipSpace(s, i)
        signed == j <= Len(s) /\ s[j] \in {Ord("+"), Ord("-")}
        k == IF signed THEN j + 1 ELSE j
        d == ScanDigits(s, k, 0)
    IN  IF k <= Len(s) /\ IsDigit(s[k])
        THEN [ok |-> TRUE,
              val |-> IF signed /\ s[j] = Ord("-") THEN 0 - d[1] ELSE d[1],
              next |-> d[2]]
        ELSE [ok |-> FALSE, val |-> 0, next |-> k]

\* The outputs after sscanf on the string s, m0 and e0 being what the
\* outputs held before: a conversion that fails ends the scan and leaves
\* the remaining outputs alone.  The third component is sscanf's count.
Sscanf(s, m0, e0) ==
    LET first == ScanInt(s, 1)
    IN  IF ~first.ok THEN <<m0, e0, 0>>
        ELSE IF ~(first.next <= Len(s) /\ s[first.next] = Ord("E"))
             THEN <<first.val, e0, 1>>
             ELSE LET second == ScanInt(s, first.next + 1)
                  IN  IF second.ok THEN <<first.val, second.val, 2>>
                                   ELSE <<first.val, e0, 1>>

\* input[] is 9 chars with no terminating NUL: the scan runs into the
\* memory after the array.  The byte there is not determined by the
\* program; the model lets it be a NUL or a digit.
Pads == {Ord("\\0"), Digit(7)}
ScanString(frame, pad) == frame \o <<pad, Ord("\\0")>>

----------------------------------------------------------------------------
(* read_float_and_confirm(): round(values * 10000) == round(old * 10000). *)

Pow10(k) == CASE k = 0 -> 1 [] k = 1 -> 10 [] k = 2 -> 100 [] k = 3 -> 1000
              [] k = 4 -> 10000 [] k = 5 -> 100000 [] k = 6 -> 1000000
              [] k = 7 -> 10000000 [] k = 8 -> 100000000 [] k = 9 -> 1000000000

\* round(m * pow(10, e) * 10000) as the pair <<c, k>> that stands for the
\* integer c * 10^k.  A value exactly halfway between two integers is
\* where the floating-point error of pow and of the products decides the
\* direction: `up` is that direction.
Round4(m, e, up) ==
    LET a == e + 4
    IN  IF a >= 0 THEN <<m, a>>
        ELSE IF 0 - a > 9 THEN <<0, 0>>
        ELSE LET p == Pow10(0 - a)
                 q == Abs(m) \div p
                 r == Abs(m) % p
                 n == IF 2 * r > p \/ (2 * r = p /\ up) THEN q + 1 ELSE q
             IN  <<IF m < 0 THEN 0 - n ELSE n, 0>>

RECURSIVE Canon(_)
Canon(v) ==
    IF v[1] = 0 THEN <<0, 0>>
    ELSE IF v[1] % 10 = 0 THEN Canon(<<v[1] \div 10, v[2] + 1>>)
    ELSE v

\* The comparison of read_float_and_confirm.
SameRounded(m1, e1, up1, m2, e2, up2) ==
    Canon(Round4(m1, e1, up1)) = Canon(Round4(m2, e2, up2))

----------------------------------------------------------------------------
(* The inputs of the model.                                                *)

\* RegloCPF(stream, address): address is any uint8_t the caller passes.
Addresses == {1, 8, 255}

\* <<*mantisse, *exponent>> passed to set_flow_rate.
SetRequests ==
    {<<1234, 0 - 2>>, <<5, 0 - 5>>, <<1, 0 - 5>>, <<0, 0>>, <<9999, 9>>,
     <<10000, 0>>, <<0 - 1, 0>>, <<0, 10>>, <<0, 0 - 10>>}

\* What the caller's variables hold when it calls get_flow_rate.
GetRequests == {<<7, 7>>}

----------------------------------------------------------------------------
(* The device: what it may send after a command.                           *)

\* A frame of the device for the flow rate m * 10^e: four mantissa digits,
\* E, the exponent's sign and two digits, carriage return.
FrameOf(m, e) ==
    FormatD(m, 4) \o <<Ord("E"), ExponentPrefix(e)>> \o FormatD(Abs(e), 2)
    \o <<Ord("\r")>>

Echoes ==
    {<<1234, 0 - 2>>, <<5, 0 - 5>>, <<50, 0 - 6>>, <<0, 0>>, <<9999, 9>>,
     <<36, 0>>}

WellFormedFrames == {FrameOf(v[1], v[2]) : v \in Echoes}

\* Frames that do not match <integer>E<signed integer><line terminator>.
Garbage == [i \in 1..FRAME_WIDTH |-> IF i = FRAME_WIDTH THEN Ord("\r") ELSE Ord("?")]
NoSeparator == [FrameOf(1234, 0 - 2) EXCEPT ![5] = Ord("X")]
NoTerminator == <<Digit(0)>> \o FormatD(1234, 4) \o <<Ord("E"), Ord("+")>> \o FormatD(1, 2)
MalformedFrames == {Garbage, NoSeparator, NoTerminator}

\* Nine bytes of which one is the byte 0xFF.
Dropout == [FrameOf(1234, 0 - 2) EXCEPT ![3] = Ord("\\xFF")]

StatusReplies == {<<Ord("*")>>, <<Ord("#")>>, <<Ord("?")>>, <<Ord("\\xFF")>>, <<>>}

\* The device answers a simple command with a status reply and a flow-rate
\* command with a frame (with or without a line feed after the carriage
\* return), a damaged frame, a status reply or nothing.
Replies(o) ==
    IF o \in SimpleOps THEN StatusReplies
    ELSE StatusReplies \union WellFormedFrames \union MalformedFrames
         \union {FrameOf(80, 0 - 1) \o <<Ord("\n")>>, Dropout}

----------------------------------------------------------------------------
(* The operations.                                                         *)

Init ==
    /\ address \in Addresses
    /\ pc = "idle"
    /\ op = "none"
    /\ mantisse = 0
    /\ exponent = 0
    /\ req = <<0, 0>>
    /\ result = "none"
    /\ time = 0
    /\ input = <<>>
    /\ rx = <<>>
    /\ wire = <<>>
    /\ tx = <<>>
    /\ drained = 0
    /\ got = <<>>
    /\ staleBuf = 0
    /\ misread = FALSE

\* The caller may call an operation when none is running.
CanCall == pc \in {"idle", "done"} /\ Len(rx) + Len(wire) <= MaxStale

\* (EnterCleared: an operation that begins by setting the caller's variables
\* to 0, as read_float_and_confirm does with its own mantisse_new and
\* exponent_new.)
EnterCleared(o, m, e, first) ==
    /\ op' = o
    /\ pc' = first
    /\ mantisse' = 0
    /\ exponent' = 0
    /\ req' = <<m, e>>
    /\ result' = "none"
    /\ time' = 0
    /\ input' = <<>>
    /\ tx' = <<>>
    /\ drained' = 0
    /\ got' = <<>>
    /\ staleBuf' = Len(rx)
    /\ misread' = FALSE
    /\ UNCHANGED <<address, rx, wire>>
\* Entry of a public operation: o with the caller's variables holding m, e.
Enter(o, m, e, first) ==
    /\ op' = o
    /\ pc' = first
    /\ mantisse' = m
    /\ exponent' = e
    /\ req' = <<m, e>>
    /\ result' = "none"
    /\ time' = 0
    /\ input' = <<>>
    /\ tx' = <<>>
    /\ drained' = 0
    /\ got' = <<>>
    /\ staleBuf' = Len(rx)
    /\ misread' = FALSE
    /\ UNCHANGED <<address, rx, wire>>

\* REQUEST_AND_CONFIRM begins with request(): no clear_buffer().
SimpleFirst == "request"

start == CanCall /\ Enter("start", 0, 0, SimpleFirst)
stop == CanCall /\ Enter("stop", 0, 0, SimpleFirst)
disable_control_panel == CanCall /\ Enter("disable_control_panel", 0, 0, SimpleFirst)
enable_control_panel == CanCall /\ Enter("enable_control_panel", 0, 0, SimpleFirst)
clockwise == CanCall /\ Enter("clockwise", 0, 0, SimpleFirst)
counterClockwise == CanCall /\ Enter("counterClockwise", 0, 0, SimpleFirst)

\* get_flow_rate and set_flow_rate begin with this->clear_buffer().
get_flow_rate ==
    /\ CanCall
    /\ \E v \in GetRequests : Enter("get_flow_rate", v[1], v[2], "clear")

set_flow_rate ==
    /\ CanCall
    /\ \E v \in SetRequests : Enter("set_flow_rate", v[1], v[2], "clear")

\* Return of the running operation with code c.
\* (ReturnOrRetransmit: an operation that sends its command again when the
\* response is not REGLO_OK.)
ReturnOrRetransmit(c) ==
    IF c \in {REGLO_TIMEOUT, REGLO_ERROR, REGLO_BAD_RESPONSE}
    THEN pc' = "request" /\ result' = "none"
    ELSE pc' = "done" /\ result' = c
Return(c) == pc' = "done" /\ result' = c

\* (clear_buffer_late: the read of clear_buffer()'s condition made also
\* while the operation waits for its frame, after the command is printed.)
clear_buffer_late ==
    /\ pc \in {"clear", "read_float"}
    /\ rx' = RxAfterRead
    /\ drained' = drained + Taken
    /\ staleBuf' = StaleAfterRead
    /\ IF pc = "read_float" THEN UNCHANGED <<pc, result>>
       ELSE IF StreamRead # NoByte
       THEN pc' = "clear_body" /\ UNCHANGED result
       ELSE IF op = "set_flow_rate" /\ ~InRange(mantisse, exponent)
            THEN pc' = "done" /\ result' = REGLO_OUT_OF_RANGE
            ELSE pc' = "request" /\ UNCHANGED result
    /\ UNCHANGED <<address, op, mantisse, exponent, req, time, input, wire, tx,
                   got, misread>>

\* clear_buffer(): while (_stream->read() != -1) { _stream->read(); }
\* This is the read of the loop condition.  When it returns -1 the drain
\* is over; set_flow_rate then checks its ranges.
clear_buffer_cond ==
    /\ pc = "clear"
    /\ rx' = RxAfterRead
    /\ drained' = drained + Taken
    /\ staleBuf' = StaleAfterRead
    /\ IF StreamRead # NoByte
       THEN pc' = "clear_body" /\ UNCHANGED result
       ELSE IF op = "set_flow_rate" /\ ~InRange(mantisse, exponent)
            THEN Return(REGLO_OUT_OF_RANGE)
            ELSE pc' = "request" /\ UNCHANGED result
    /\ UNCHANGED <<address, op, mantisse, exponent, req, time, input, wire, tx,
                   got, misread>>

\* The read in the body of clear_buffer()'s loop.
clear_buffer_body ==
    /\ pc = "clear_body"
    /\ rx' = RxAfterRead
    /\ drained' = drained + Taken
    /\ staleBuf' = StaleAfterRead
    /\ pc' = "clear"
    /\ UNCHANGED <<address, op, mantisse, exponent, req, result, time, input,
                   wire, tx, got, misread>>

\* What an operation returns when request() fails: the macro returns
\* request()'s code, get_flow_rate and set_flow_rate REGLO_INTERNAL_ERROR.
RequestFailure(o) == REGLO_INTERNAL_ERROR

\* request(): format the command; print it when it fits.  The device's
\* reply to the command is put on the wire.
request ==
    /\ pc = "request"
    /\ LET text == Render(op, address, mantisse, exponent)
       IN  IF RequestFits(text)
           THEN /\ tx' = Append(tx, text)
                /\ \E reply \in Replies(op) : wire' = wire \o reply
                /\ pc' = IF op \in SimpleOps THEN "confirm" ELSE "read_float"
                /\ UNCHANGED result
           ELSE /\ Return(RequestFailure(op))
                /\ UNCHANGED <<tx, wire>>
    /\ UNCHANGED <<address, op, mantisse, exponent, req, time, input, rx,
                   drained, got, staleBuf, misread>>

\* The switch of confirm().
\* (ConfirmCodeSwapped: the first two cases exchanged.)
ConfirmCodeSwapped(response) ==
    CASE response = RESPONSE_OK -> REGLO_ERROR
      [] response = RESPONSE_ERROR -> REGLO_OK
      [] response = RESPONSE_TIMEOUT -> REGLO_TIMEOUT
      [] OTHER -> REGLO_BAD_RESPONSE
ConfirmCode(response) ==
    CASE response = RESPONSE_OK -> REGLO_OK
      [] response = RESPONSE_ERROR -> REGLO_ERROR
      [] response = RESPONSE_TIMEOUT -> REGLO_TIMEOUT
      [] OTHER -> REGLO_BAD_RESPONSE

\* confirm(): one _stream->read() into `char response`, then either another
\* turn of the loop (response == -1 && time < limit) or the switch.
confirm ==
    /\ pc = "confirm"
    /\ LET response == ToChar(StreamRead)
       IN  /\ rx' = RxAfterRead
           /\ got' = Consumed(got)
           /\ staleBuf' = StaleAfterRead
           /\ misread' = (misread \/ (response # NoByte /\ staleBuf > 0))
           /\ IF response = NoByte /\ time < MaxTime
              THEN time' = time + 1 /\ UNCHANGED <<pc, result>>
              ELSE Return(ConfirmCode(response)) /\ UNCHANGED time
    /\ UNCHANGED <<address, op, mantisse, exponent, req, input, wire, tx, drained>>

\* if (*input == '#') return REGLO_ERROR;  -- checked once input[0] is read,
\* before any further byte is waited for.
\* (IsErrorReplyLate: the test placed after the loop that fills input[1..8].)
IsErrorReplyLate(inp) == Len(inp) = FRAME_WIDTH /\ inp[1] = RESPONSE_ERROR
IsErrorReply(inp) == Len(inp) = 1 /\ inp[1] = RESPONSE_ERROR

\* read_float_and_confirm(): *mantisse = mantisse_new; *exponent = exponent_new;
\* (OutputsKept: the two stores left out.)
OutputsKept(scanned, old) == old
Outputs(scanned, old) == <<scanned[1], scanned[2]>>

\* read_float_and_confirm()'s code for the echoed value `scanned` and the
\* requested value `old`; up1 and up2 are the directions in which a value
\* halfway between two integers is rounded.
\* (VerifyAfterStore: `old` computed after *mantisse and *exponent were
\* overwritten, so that the echoed value is compared with itself.)
VerifyAfterStore(scanned, old, up1, up2) ==
    IF SameRounded(scanned[1], scanned[2], up1, scanned[1], scanned[2], up1)
    THEN REGLO_OK
    ELSE REGLO_BAD_RESPONSE
Verify(scanned, old, up1, up2) ==
    IF SameRounded(scanned[1], scanned[2], up1, old[1], old[2], up2)
    THEN REGLO_OK
    ELSE REGLO_BAD_RESPONSE

\* The end of read_float_from_pump() once the frame `frame` is complete.
\* get_flow_rate scans into the caller's variables and returns REGLO_OK;
\* set_flow_rate scans into mantisse_new = exponent_new = 0, stores them
\* in the caller's variables and compares.
Decode(frame) ==
    \E pad \in Pads :
        IF op = "get_flow_rate"
        THEN LET scanned == Sscanf(ScanString(frame, pad), mantisse, exponent)
             IN  /\ mantisse' = scanned[1]
                 /\ exponent' = scanned[2]
                 /\ Return(REGLO_OK)
        ELSE LET scanned == Sscanf(ScanString(frame, pad), 0, 0)
                 old == <<mantisse, exponent>>
                 out == Outputs(scanned, old)
             IN  \E up1, up2 \in BOOLEAN :
                     /\ (<<scanned[1], scanned[2]>> = old => up1 = up2)
                     /\ mantisse' = out[1]
                     /\ exponent' = out[2]
                     /\ Return(Verify(scanned, old, up1, up2))

\* read_float_from_pump(): one _stream->read() into the char input[i] of
\* the loop `while (input[i] == -1)`.
read_float_from_pump ==
    /\ pc = "read_float"
    /\ LET c == ToChar(StreamRead)
           collected == IF c = NoByte THEN input ELSE Append(input, c)
       IN  /\ rx' = RxAfterRead
           /\ got' = Consumed(got)
           /\ staleBuf' = StaleAfterRead
           /\ misread' = (misread \/ (c # NoByte /\ staleBuf > 0))
           /\ input' = collected
           /\ IF c = NoByte
              THEN UNCHANGED <<pc, result, mantisse, exponent>>
              ELSE IF IsErrorReply(collected)
              THEN Return(REGLO_ERROR) /\ UNCHANGED <<mantisse, exponent>>
              ELSE IF Len(collected) < FRAME_WIDTH
              THEN UNCHANGED <<pc, result, mantisse, exponent>>
              ELSE Decode(collected)
    /\ UNCHANGED <<address, op, req, time, wire, tx, drained>>

\* A byte sent by the device arrives in the Stream's buffer.
Arrive ==
    /\ wire # <<>>
    /\ Len(rx) < MaxRx
    /\ rx' = Append(rx, Head(wire))
    /\ wire' = Tail(wire)
    /\ UNCHANGED <<address, pc, op, mantisse, exponent, req, result, time,
                   input, tx, drained, got, staleBuf, misread>>

Next ==
    \/ start
    \/ stop
    \/ disable_control_panel
    \/ enable_control_panel
    \/ clockwise
    \/ counterClockwise
    \/ get_flow_rate
    \/ set_flow_rate
    \/ clear_buffer_cond
    \/ clear_buffer_body
    \/ request
    \/ confirm
    \/ read_float_from_pump
    \/ Arrive

Spec == Init /\ [][Next]_vars

\* The frame reader goes on reading: it does not stay for ever in front of
\* a buffered byte without taking it (the loops of read_float_from_pump
\* call _stream->read() again and again).  A byte in flight arrives while
\* the Stream has room for it.
ReaderRuns == []<>(~(pc = "read_float" /\ rx # <<>>))

Fairness == ReaderRuns /\ WF_vars(Arrive)

\* get_flow_rate and set_flow_rate of a controller with address 1, run to
\* their end.
InitFrame == Init /\ address = 1

NextFrame ==
    \/ get_flow_rate
    \/ set_flow_rate
    \/ clear_buffer_cond
    \/ clear_buffer_body
    \/ request
    \/ read_float_from_pump
    \/ Arrive

SpecFrame == InitFrame /\ [][NextFrame]_vars /\ Fairness

----------------------------------------------------------------------------
(* request() on its own: REQUEST_AND_CONFIRM, and the request() calls of   *)
(* the flow-rate operations, with arguments over the range of int rather   *)
(* than the ones set_flow_rate's range checks let through.                 *)

EncAddresses == {1, 10, 255}
EncMantissas == {1234, 0 - 12345}
EncExponents == {0 - 2, 0 - 12345}

InitEnc ==
    /\ address \in EncAddresses
    /\ pc = "idle"
    /\ op = "none"
    /\ mantisse = 0
    /\ exponent = 0
    /\ req = <<0, 0>>
    /\ result = "none"
    /\ time = 0
    /\ input = <<>>
    /\ rx = <<>>
    /\ wire = <<>>
    /\ tx = <<>>
    /\ drained = 0
    /\ got = <<>>
    /\ staleBuf = 0
    /\ misread = FALSE

request_and_confirm ==
    /\ CanCall
    /\ \E o \in SimpleOps : Enter(o, 0, 0, "request")

request_get_flow_rate ==
    /\ CanCall
    /\ \E v \in GetRequests : Enter("get_flow_rate", v[1], v[2], "request")

request_set_flow_rate ==
    /\ CanCall
    /\ \E m \in EncMantissas, e \in EncExponents :
           Enter("set_flow_rate", m, e, "request")

NextEnc ==
    \/ request_and_confirm
    \/ request_get_flow_rate
    \/ request_set_flow_rate
    \/ request
    \/ confirm
    \/ read_float_from_pump
    \/ Arrive

SpecEnc == InitEnc /\ [][NextEnc]_vars

----------------------------------------------------------------------------
(* The simple commands on a channel that answers every command with one    *)
(* '*', buffered by the time print() returns.                               *)

OkAddresses == {0, 255} \union (1..8)
OkAnswer == <<Ord("*")>>

InitOk ==
    /\ address \in OkAddresses
    /\ pc = "idle"
    /\ op = "none"
    /\ mantisse = 0
    /\ exponent = 0
    /\ req = <<0, 0>>
    /\ result = "none"
    /\ time = 0
    /\ input = <<>>
    /\ rx = <<>>
    /\ wire = <<>>
    /\ tx = <<>>
    /\ drained = 0
    /\ got = <<>>
    /\ staleBuf = 0
    /\ misread = FALSE

\* request() of a simple command on that channel.
request_answered ==
    /\ pc = "request"
    /\ op \in SimpleOps
    /\ LET text == Render(op, address, mantisse, exponent)
       IN  IF RequestFits(text)
           THEN /\ tx' = Append(tx, text)
                /\ rx' = rx \o OkAnswer
                /\ pc' = "confirm"
                /\ UNCHANGED result
           ELSE /\ Return(RequestFailure(op))
                /\ UNCHANGED <<tx, rx>>
    /\ UNCHANGED <<address, op, mantisse, exponent, req, time, input, wire,
                   drained, got, staleBuf, misread>>

NextOk ==
    \/ start
    \/ stop
    \/ disable_control_panel
    \/ enable_control_panel
    \/ clockwise
    \/ counterClockwise
    \/ request_answered
    \/ confirm

SpecOk == InitOk /\ [][NextOk]_vars

----------------------------------------------------------------------------
(* clear_buffer() on its own: called, at the head of get_flow_rate, with    *)
(* any bytes buffered, and no byte arriving while it runs.                  *)

BufferedBytes == {Ord("*"), Ord("\\xFF"), Ord("\\0")}

RECURSIVE Buffers(_)
Buffers(n) ==
    IF n = 0 THEN {<<>>}
    ELSE LET shorter == Buffers(n - 1)
         IN  shorter \union {Append(b, c) : b \in shorter, c \in BufferedBytes}

InitDrain ==
    /\ address = 1
    /\ pc = "idle"
    /\ op = "none"
    /\ mantisse = 0
    /\ exponent = 0
    /\ req = <<0, 0>>
    /\ result = "none"
    /\ time = 0
    /\ input = <<>>
    /\ rx \in Buffers(MaxBuffered)
    /\ wire = <<>>
    /\ tx = <<>>
    /\ drained = 0
    /\ got = <<>>
    /\ staleBuf = 0
    /\ misread = FALSE

\* get_flow_rate is called: its first statement is this->clear_buffer().
call_clear_buffer ==
    /\ pc = "idle"
    /\ \E v \in GetRequests : Enter("get_flow_rate", v[1], v[2], "clear")

NextDrain ==
    \/ call_clear_buffer
    \/ clear_buffer_cond
    \/ clear_buffer_body

\* clear_buffer() goes on executing while it has a statement to execute.
SpecDrain == InitDrain /\ [][NextDrain]_vars /\ WF_vars(NextDrain)

----------------------------------------------------------------------------
(* The eight operations up to the end of request(), for every address a    *)
(* uint8_t holds.                                                          *)

FitAddresses == 0..255

InitFit ==
    /\ address \in FitAddresses
    /\ pc = "idle"
    /\ op = "none"
    /\ mantisse = 0
    /\ exponent = 0
    /\ req = <<0, 0>>
    /\ result = "none"
    /\ time = 0
    /\ input = <<>>
    /\ rx = <<>>
    /\ wire = <<>>
    /\ tx = <<>>
    /\ drained = 0
    /\ got = <<>>
    /\ staleBuf = 0
    /\ misread = FALSE

NextFit ==
    \/ start
    \/ stop
    \/ disable_control_panel
    \/ enable_control_panel
    \/ clockwise
    \/ counterClockwise
    \/ get_flow_rate
    \/ set_flow_rate
    \/ clear_buffer_cond
    \/ request

SpecFit == InitFit /\ [][NextFit]_vars

----------------------------------------------------------------------------
(* Notions the properties are stated with.                                 *)

Returned == pc = "done"
SimpleReturned == Returned /\ op \in SimpleOps
FlowReturned == Returned /\ op \in FlowOps
SetReturned == Returned /\ op = "set_flow_rate"

\* The running or returned operation has collected a whole frame.
FrameRead == Len(input) = FRAME_WIDTH

\* frame matches <integer>E<signed integer><line terminator>.
MatchesFrame(frame) ==
    LET s == ScanString(frame, Ord("\\0"))
        first == ScanInt(s, 1)
        second == ScanInt(s, first.next + 1)
    IN  /\ first.ok
        /\ s[first.next] = Ord("E")
        /\ second.ok
        /\ s[second.next] \in {Ord("\r"), Ord("\n")}

\* <<mantissa, exponent>> of a frame that matches.
Decoded(frame) ==
    LET scanned == Sscanf(ScanString(frame, Ord("\\0")), 0, 0)
    IN  <<scanned[1], scanned[2]>>

\* m1 * 10^e1 = m2 * 10^e2, exactly.
SameValue(m1, e1, m2, e2) == Canon(<<m1, e1>>) = Canon(<<m2, e2>>)

\* d * 10^a > 1, for d >= 0.
AboveOne(d, a) ==
    IF a >= 1 THEN d >= 1
    ELSE IF a = 0 THEN d > 1
    ELSE IF 0 - a <= 9 THEN d > Pow10(0 - a)
    ELSE FALSE

\* |m1 * 10^e1 - m2 * 10^e2| > 10^-4, for mantissas in 0..9999.
FarApartOrdered(mh, eh, ml, el) ==
    IF mh = 0 THEN AboveOne(ml, el + 4)
    ELSE IF eh - el <= 5 THEN AboveOne(Abs(mh * Pow10(eh - el) - ml), el + 4)
    ELSE AboveOne(mh, eh + 4)
FarApart(m1, e1, m2, e2) ==
    IF e1 >= e2 THEN FarApartOrdered(m1, e1, m2, e2)
                ELSE FarApartOrdered(m2, e2, m1, e1)

MantissaInRange(m) == m >= 0 /\ m <= 9999

\* m * 10^e * 10000 is exactly halfway between two integers: the one case in
\* which the direction of round() rests on the floating-point error.
Halfway(m, e) ==
    /\ e + 4 < 0
    /\ 0 - (e + 4) <= 9
    /\ 2 * (Abs(m) % Pow10(0 - (e + 4))) = Pow10(0 - (e + 4))

----------------------------------------------------------------------------
(* C1: once a simple command is transmitted, the first byte obtained from  *)
(* the channel decides: '*' gives REGLO_OK, '#' gives REGLO_ERROR; and if  *)
(* every read, the first and each of the retries up to the limit, finds    *)
(* no byte, the result is REGLO_TIMEOUT.                                   *)
C1_ConfirmMapping ==
    (SimpleReturned /\ tx # <<>>) =>
        /\ (got # <<>> /\ got[1] = Ord("*")) => result = REGLO_OK
        /\ (got # <<>> /\ got[1] = Ord("#")) => result = REGLO_ERROR
        /\ got = <<>> => (result = REGLO_TIMEOUT /\ time = MaxTime)

C1_Witness ==
    SimpleReturned /\ tx # <<>> /\ got = <<>> /\ result = REGLO_TIMEOUT /\ time = MaxTime

(* C2 as claimed: in confirm() every byte received that is neither '*' nor *)
(* '#', 0xFF included, ends the wait at once with REGLO_BAD_RESPONSE.      *)
C2_AnyOtherByteIsBadResponse ==
    (SimpleReturned /\ got # <<>> /\ got[1] \notin {Ord("*"), Ord("#")}) =>
        (result = REGLO_BAD_RESPONSE /\ Len(got) = 1)

(* C3 as claimed: set_flow_rate with an exponent outside [-9,9] or a       *)
(* mantissa outside [0,9999] returns REGLO_OUT_OF_RANGE and has written no *)
(* byte and consumed no byte of the channel.                               *)
C3_OutOfRangeWithoutIO ==
    (SetReturned /\ ~InRange(req[1], req[2])) =>
        (result = REGLO_OUT_OF_RANGE /\ tx = <<>> /\ drained = 0 /\ got = <<>>)

(* C4: a command whose rendered length is at least BUFFER_SIZE is never    *)
(* printed: the operation goes from request() straight to its return with  *)
(* REGLO_INTERNAL_ERROR, never reading a response.                         *)
C4_OversizeCommandNotSent ==
    (pc # "idle" /\ Len(Render(op, address, req[1], req[2])) >= BUFFER_SIZE) =>
        /\ pc \in {"request", "done"}
        /\ tx = <<>>
        /\ got = <<>>
        /\ Returned => result = REGLO_INTERNAL_ERROR

C4_Witness ==
    /\ Returned
    /\ Len(Render(op, address, req[1], req[2])) = BUFFER_SIZE
    /\ result = REGLO_INTERNAL_ERROR
    /\ rx # <<>>

(* C5 as claimed: for a valid request and a well-formed echoed frame, an   *)
(* echoed value different from the requested one gives REGLO_BAD_RESPONSE. *)
(* (Stated for the values whose rounding does not rest on floating-point   *)
(* error, so that a violation is one of every build.)                      *)
C5_AnyDifferenceDetected ==
    (/\ SetReturned /\ FrameRead /\ MatchesFrame(input)
     /\ InRange(req[1], req[2])
     /\ ~Halfway(req[1], req[2])
     /\ ~Halfway(Decoded(input)[1], Decoded(input)[2])
     /\ ~SameValue(Decoded(input)[1], Decoded(input)[2], req[1], req[2]))
    => result = REGLO_BAD_RESPONSE

(* C5 amended: for a valid request and a well-formed echoed frame with a   *)
(* mantissa in [0,9999], an echoed value that differs from the requested   *)
(* one by more than 10^-4 gives REGLO_BAD_RESPONSE.                        *)
C5_DifferenceAboveResolutionDetected ==
    (/\ SetReturned /\ FrameRead /\ MatchesFrame(input)
     /\ InRange(req[1], req[2])
     /\ MantissaInRange(Decoded(input)[1])
     /\ FarApart(Decoded(input)[1], Decoded(input)[2], req[1], req[2]))
    => result = REGLO_BAD_RESPONSE

C5_Witness ==
    /\ SetReturned /\ FrameRead /\ MatchesFrame(input)
    /\ req = <<1234, 0 - 2>>
    /\ Decoded(input) = <<36, 0>>
    /\ FarApart(36, 0, 1234, 0 - 2)
    /\ result = REGLO_BAD_RESPONSE

(* C6: for a valid request (m, e), when the frame set_flow_rate collects   *)
(* is the device's frame for the same m and e, it returns REGLO_OK and the *)
(* caller's mantissa and exponent are (m, e).                              *)
C6_RoundTrip ==
    (/\ SetReturned /\ FrameRead
     /\ InRange(req[1], req[2])
     /\ input = FrameOf(req[1], req[2]))
    => (result = REGLO_OK /\ <<mantisse, exponent>> = req)

C6_Witness ==
    /\ SetReturned
    /\ req = <<1234, 0 - 2>>
    /\ input = FrameOf(1234, 0 - 2)
    /\ result = REGLO_OK
    /\ <<mantisse, exponent>> = <<1234, 0 - 2>>

(* C7: whenever set_flow_rate has read a whole frame, it returns REGLO_OK  *)
(* or REGLO_BAD_RESPONSE and, with either code, the caller's mantissa and  *)
(* exponent hold what was decoded from that frame (0 where the frame gave  *)
(* nothing to decode), not the requested value.                            *)
C7_OutputsAreEchoed ==
    (SetReturned /\ FrameRead) =>
        /\ result \in {REGLO_OK, REGLO_BAD_RESPONSE}
        /\ \E pad \in Pads :
               LET scanned == Sscanf(ScanString(input, pad), 0, 0)
               IN  <<mantisse, exponent>> = <<scanned[1], scanned[2]>>

C7_Witness ==
    /\ SetReturned /\ FrameRead /\ MatchesFrame(input)
    /\ result = REGLO_BAD_RESPONSE
    /\ req = <<9999, 9>>
    /\ <<mantisse, exponent>> = <<36, 0>>

(* C8 as claimed: when the frame-width bytes collected do not match        *)
(* <integer>E<signed integer><line terminator>, get_flow_rate and          *)
(* set_flow_rate return REGLO_BAD_RESPONSE.                                *)
C8_MalformedFrameRejected ==
    (FlowReturned /\ FrameRead /\ ~MatchesFrame(input)) =>
        result = REGLO_BAD_RESPONSE

C10_NoStaleByteRead == ~misread

(* C11: on a channel that answers every transmitted command with exactly   *)
(* one '*', every simple command, whatever calls came before it, returns   *)
(* REGLO_OK having read that one byte, leaves nothing buffered for the     *)
(* next call, and the controller's address is what it was constructed      *)
(* with; a call begins with no byte of an earlier call left over.          *)
C11_EveryCallReturnsOk ==
    /\ SimpleReturned =>
           /\ result = REGLO_OK
           /\ got = OkAnswer
           /\ time = 0
           /\ rx = <<>>
           /\ tx = <<Render(op, address, 0, 0)>>
    /\ (pc \in {"request", "confirm"}) => staleBuf = 0
    /\ address \in OkAddresses

C11_Witness ==
    /\ SimpleReturned
    /\ op = "stop"
    /\ result = REGLO_OK
    /\ got = OkAnswer
    /\ rx = <<>>

\* The wire format of each operation as the protocol states it, for the
\* address a, the mantissa m in 0..9999 and the exponent e in -9..9.
WireLetter(o) ==
    CASE o = "start" -> "H" [] o = "stop" -> "I"
      [] o = "disable_control_panel" -> "B" [] o = "enable_control_panel" -> "A"
      [] o = "clockwise" -> "J" [] o = "counterClockwise" -> "K"
      [] o = "get_flow_rate" -> "f" [] o = "set_flow_rate" -> "f"
FourDigits(m) ==
    <<Digit(m \div 1000), Digit((m \div 100) % 10), Digit((m \div 10) % 10),
      Digit(m % 10)>>
WireFormat(o, a, m, e) ==
    IF o = "set_flow_rate"
    THEN DecDigits(a) \o <<Ord("f")>> \o FourDigits(m)
         \o <<IF e >= 0 THEN Ord("+") ELSE Ord("-")>>
         \o <<Digit(IF e >= 0 THEN e ELSE 0 - e)>> \o <<Ord("\r")>>
    ELSE DecDigits(a) \o <<Ord(WireLetter(o)), Ord("\r")>>

(* C12: what an operation has printed to the channel is exactly its wire   *)
(* format for the bound address (and, for set_flow_rate, for the mantissa   *)
(* and exponent passed in), and a set_flow_rate command is printed only    *)
(* for a mantissa in [0,9999] and an exponent in [-9,9].                   *)
C12_WireFormats ==
    \A i \in 1..Len(tx) :
        /\ (op = "set_flow_rate") =>
               (req[1] \in 0..9999 /\ req[2] \in (0 - 9)..9)
        /\ tx[i] = WireFormat(op, address, req[1], req[2])

C12_Witness ==
    /\ SetReturned
    /\ address = 8
    /\ req = <<5, 0 - 5>>
    /\ tx = <<<<Digit(8), Ord("f"), Digit(0), Digit(0), Digit(0), Digit(5),
               Ord("-"), Digit(5), Ord("\r")>>>>

(* C13 as claimed: the address of a controller is in [1,8], so that every  *)
(* command that is transmitted carries an address in [1,8].                *)
C13_AddressInRange == (tx # <<>>) => address \in 1..8

\* The running or returned operation passed its validation and its command
\* fits the buffer of request().
Accepted ==
    /\ (op = "set_flow_rate") => InRange(req[1], req[2])
    /\ RequestFits(Render(op, address, req[1], req[2]))

(* C14: an operation prints to the channel at most once.  When it has      *)
(* returned it has printed exactly its one rendered command if validation  *)
(* and encoding succeeded and nothing otherwise, whatever code the         *)
(* response gave; while it waits for the response the command has been     *)
(* printed once.                                                           *)
C14_AtMostOneWrite ==
    /\ Len(tx) <= 1
    /\ (pc \in {"confirm", "read_float"}) => Len(tx) = 1
    /\ Returned =>
           IF Accepted THEN tx = <<Render(op, address, req[1], req[2])>>
                       ELSE tx = <<>>

C14_Witness ==
    /\ Returned
    /\ result \in {REGLO_TIMEOUT, REGLO_ERROR, REGLO_BAD_RESPONSE}
    /\ op \in {"start", "set_flow_rate"}
    /\ Len(tx) = 1
    /\ wire = <<>> /\ rx = <<>>

(* C15 as claimed: confirm() makes at most (retry limit + 1) reads, and a   *)
(* read that receives a byte is its last: the command returns with that    *)
(* read.                                                                   *)
C15_ConfirmStopsAtFirstByte ==
    [][(pc = "confirm") =>
           /\ time' <= MaxTime
           /\ (rx # <<>>) => (pc' = "done" /\ result' # "none")]_vars

\* The bytes the channel has delivered or will deliver to the reads made
\* after the command was printed.
Delivered == got \o rx \o wire

(* C16 as claimed: get_flow_rate and set_flow_rate, once the command is    *)
(* printed, return only with a first byte '#' or with nine bytes           *)
(* collected, never with REGLO_TIMEOUT; and when the device delivers nine  *)
(* bytes, or a '#' first, the operation returns.                           *)
C16_FrameReadReturns ==
    /\ [](FlowReturned /\ tx # <<>> =>
             /\ result # REGLO_TIMEOUT
             /\ (input = <<Ord("#")>> \/ Len(input) = FRAME_WIDTH))
    /\ ((pc = "read_float" /\
         (\/ Len(Delivered) >= FRAME_WIDTH
          \/ (Delivered # <<>> /\ Delivered[1] = Ord("#"))))
            ~> Returned)

\* clear_buffer() is running; it has returned to its caller.
Draining == pc \in {"clear", "clear_body"}
Drained == pc = "request"

(* C17: clear_buffer(), called with any number of bytes buffered (none,    *)
(* odd or even) of any values and with no byte arriving meanwhile,         *)
(* returns, and when it has returned the channel is empty and every byte   *)
(* that was buffered has been consumed.                                    *)
C17_ClearBufferDrains ==
    /\ [](Drained => (rx = <<>> /\ staleBuf = 0))
    /\ [](Draining => Len(rx) = staleBuf)
    /\ (Draining ~> Drained)

C17_Witness ==
    /\ Drained
    /\ drained = 3
    /\ rx = <<>>

(* C18: for every address of a uint8_t and every mantissa and exponent     *)
(* that pass set_flow_rate's range checks, the command of each of the      *)
(* eight operations renders to fewer than BUFFER_SIZE bytes: request()     *)
(* prints it, and no operation returns REGLO_INTERNAL_ERROR.               *)
C18_CommandsFit ==
    /\ (pc # "idle" /\ ((op = "set_flow_rate") => InRange(req[1], req[2]))) =>
           Len(Render(op, address, req[1], req[2])) < BUFFER_SIZE
    /\ (pc \in {"confirm", "read_float"}) =>
           tx = <<Render(op, address, req[1], req[2])>>
    /\ result # REGLO_INTERNAL_ERROR

C18_Witness ==
    /\ address = 255
    /\ op = "set_flow_rate"
    /\ req = <<9999, 9>>
    /\ pc = "read_float"
    /\ Len(tx) = 1
    /\ Len(tx[1]) = 11

(* C19: when set_flow_rate has returned REGLO_OUT_OF_RANGE,                *)
(* REGLO_INTERNAL_ERROR or REGLO_ERROR, and when get_flow_rate has         *)
(* returned REGLO_INTERNAL_ERROR or REGLO_ERROR, the caller's mantissa and *)
(* exponent hold the values they were passed in with.                      *)
C19_OutputsUnchangedOnError ==
    (/\ FlowReturned
     /\ result \in {REGLO_OUT_OF_RANGE, REGLO_INTERNAL_ERROR, REGLO_ERROR})
    => <<mantisse, exponent>> = req

C19_Witness ==
    /\ SetReturned
    /\ result = REGLO_ERROR
    /\ req = <<1234, 0 - 2>>
    /\ <<mantisse, exponent>> = <<1234, 0 - 2>>
    /\ tx # <<>>

(* C20: in get_flow_rate and set_flow_rate the command is not yet printed  *)
(* while clear_buffer() runs, and once it is printed no byte is discarded: *)
(* a step of the waiting operation consumes no byte by draining, and the   *)
(* bytes it has read followed by the bytes buffered and in flight are the  *)
(* same sequence before and after every step, so that each byte leaves     *)
(* the channel only into the frame reader, in the order of arrival.        *)
C20_NoDrainAfterWrite ==
    /\ []((op \in FlowOps /\ pc \in {"clear", "clear_body"}) => tx = <<>>)
    /\ [][(op \in FlowOps /\ pc = "read_float") =>
              /\ drained' = drained
              /\ tx' = tx
              /\ got' \o rx' \o wire' = got \o rx \o wire]_vars

C20_Witness ==
    /\ FlowReturned
    /\ drained = 1
    /\ Len(got) = FRAME_WIDTH
    /\ got = FrameOf(36, 0)
    /\ input = got

====
